---- MODULE Spec2Model ----
(***************************************************************************)
(* Shape-level model of swirl_dynamics/lib/diffusion/unets.py (the U-Net   *)
(* forward pass and its preconditioned wrapper) and of                     *)
(* swirl_dynamics/projects/probabilistic_diffusion/evaluate.py (the        *)
(* conditional sampling benchmark).                                        *)
(*                                                                         *)
(* Arrays are modelled by their shapes (sequences of naturals); Python     *)
(* levels and block ids are kept 0-based as in the source, so the k-th     *)
(* entry of a Python tuple t is t[k + 1] here.                             *)
(***************************************************************************)
EXTENDS Integers, Sequences, FiniteSets, TLC

VARIABLES
  cfg,          \* the module's attributes (UNet / PreconditionedDenoiser fields)
  pc,           \* position in __call__
  x,            \* shape of the x argument of the outermost call
  sigma,        \* shape of the sigma argument of the outermost call
  cond,         \* the cond argument as read by MergeChannelCond, and the keys
                \* it embedded and concatenated
  ux,           \* UNet.__call__'s local x (shape)
  usigma,       \* UNet.__call__'s local sigma (shape)
  input_size,   \* UNet.__call__'s local input_size
  res,          \* the stacks' local res (the resolution used in layer names)
  h,            \* the current feature map (shape)
  skips,        \* the skips list: records [shape, level, block]
  level,        \* loop variable of DStack / UStack
  block_id,     \* loop variable of DStack / UStack
  layers_log,   \* attention and position-embedding layers applied by the stacks
  combines,     \* CombineResidualWithSkip calls made by UStack
  result,       \* outcome of the outermost call
  num,          \* PreconditionedDenoiser's arrays, with their values
  bench         \* a CondSamplingBenchmark and the state of its methods

vars == <<cfg, pc, x, sigma, cond, ux, usigma, input_size, res, h, skips, level,
          block_id, layers_log, combines, result, num, bench>>

----------------------------------------------------------------------------
(* Bounds of the model *)

MaxLevels == 2

MaxBlocks == 2

MaxBatch == 2

----------------------------------------------------------------------------
(* Shapes *)

Batch(shape) == shape[1]

Channels(shape) == shape[Len(shape)]

\* shape[1:-1]
SpatialOf(shape) == SubSeq(shape, 2, Len(shape) - 1)

WithChannels(shape, c) == SubSeq(shape, 1, Len(shape) - 1) \o <<c>>

RECURSIVE Pow(_, _)
Pow(b, e) == IF e = 0 THEN 1 ELSE b * Pow(b, e - 1)

RECURSIVE ProdSeq(_)
ProdSeq(s) == IF s = <<>> THEN 1 ELSE Head(s) * ProdSeq(Tail(s))

Max2(a, b) == IF a >= b THEN a ELSE b

\* t[::-1]
Reversed(t) == [i \in 1..Len(t) |-> t[Len(t) + 1 - i]]

\* numpy broadcasting of two shapes, aligned on their trailing axes
PadLeft(s, n) == [i \in 1..n |-> IF i <= n - Len(s) THEN 1 ELSE s[i - (n - Len(s))]]

BroadcastOk(a, b) ==
  LET n == Max2(Len(a), Len(b))
      pa == PadLeft(a, n)
      pb == PadLeft(b, n)
  IN  \A i \in 1..n : pa[i] = pb[i] \/ pa[i] = 1 \/ pb[i] = 1

Broadcast(a, b) ==
  LET n == Max2(Len(a), Len(b))
      pa == PadLeft(a, n)
      pb == PadLeft(b, n)
  IN  [i \in 1..n |-> IF pa[i] = 1 THEN pb[i] ELSE pa[i]]

Raise(what) == [kind |-> "raise", what |-> what, shape |-> <<>>]

Return(shape) == [kind |-> "return", what |-> "", shape |-> shape]

NoResult == [kind |-> "none", what |-> "", shape |-> <<>>]

----------------------------------------------------------------------------
(* swirl_dynamics.lib.layers: the layers the stacks are built from.  Their   *)
(* source is not part of the files modelled here; they are modelled by their *)
(* effect on shapes as the call sites in unets.py use them.                  *)

\* ConvLayer with CIRCULAR padding: spatial dims kept, channels = features
ConvLayer(shape, features) == WithChannels(shape, features)

\* DownsampleConv needs every spatial dim divisible by its ratio
DownsampleConvOk(shape, ratio) ==
  \A i \in 2..(Len(shape) - 1) : shape[i] % ratio = 0

DownsampleConv(shape, features, ratio) ==
  [i \in 1..Len(shape) |->
     IF i = 1 THEN shape[1]
     ELSE IF i = Len(shape) THEN features
     ELSE shape[i] \div ratio]

\* channel_to_space: each spatial dim times the block size, channels divided
channel_to_space(shape, up_ratio) ==
  [i \in 1..Len(shape) |->
     IF i = 1 THEN shape[1]
     ELSE IF i = Len(shape) THEN shape[i] \div Pow(up_ratio, Len(shape) - 2)
     ELSE shape[i] * up_ratio]

\* CombineResidualWithSkip: (skip + residual) / sqrt(2), the skip first
\* projected onto the residual's channels when project_skip is set
CombineOk(project_skip, residual, skip_shape) ==
  BroadcastOk(residual,
              IF project_skip THEN WithChannels(skip_shape, Channels(residual))
              ELSE skip_shape)

CombineResidualWithSkip(project_skip, residual, skip_shape) ==
  Broadcast(residual,
            IF project_skip THEN WithChannels(skip_shape, Channels(residual))
            ELSE skip_shape)

\* FilteredResize: the axes before the channel axis are resized to
\* output_size; the input needs exactly one more axis per leading batch axis
FilteredResizeOk(shape, output_size) == Len(shape) > Len(output_size)

FilteredResize(shape, output_size) ==
  SubSeq(shape, 1, Len(shape) - Len(output_size) - 1)
    \o output_size \o <<Channels(shape)>>

----------------------------------------------------------------------------
(* Exact arithmetic for PreconditionedDenoiser: values are rationals <<n, d>> *)
(* with d > 0 in lowest terms; arrays are [shape, vals] with vals in          *)
(* row-major order.  The inputs are drawn so that every square root taken is  *)
(* rational; ln is kept as a term [coef, ln], standing for coef * ln(ln).     *)

Abs(n) == IF n < 0 THEN -n ELSE n

RECURSIVE Gcd(_, _)
Gcd(a, b) == IF b = 0 THEN a ELSE Gcd(b, a % b)

Rat(n, d) ==
  LET g == Gcd(Abs(n), Abs(d))
      sgn == IF d < 0 THEN -1 ELSE 1
  IN  <<sgn * (n \div g), sgn * (d \div g)>>

RAdd(a, b) == Rat(a[1] * b[2] + b[1] * a[2], a[2] * b[2])

RMul(a, b) == Rat(a[1] * b[1], a[2] * b[2])

RDiv(a, b) == Rat(a[1] * b[2], a[2] * b[1])

RSquare(a) == RMul(a, a)

ISqrt(n) == CHOOSE r \in 0..n : r * r = n

RSqrt(a) == <<ISqrt(a[1]), ISqrt(a[2])>>

ROne == <<1, 1>>

\* jnp.log(v), and a number times it
RLog(a) == [coef |-> ROne, ln |-> a]

LogScale(c, t) == [coef |-> RMul(c, t.coef), ln |-> t.ln]

Numel(shape) == ProdSeq(shape)

Tensor(shape, vals) == [shape |-> shape, vals |-> vals]

NoTensor == [shape |-> <<>>, vals |-> <<>>]

\* the multi-index (0-based) of the row-major position p (0-based)
RECURSIVE Unravel(_, _)
Unravel(p, shape) ==
  IF shape = <<>> THEN <<>>
  ELSE LET rest == Numel(Tail(shape))
       IN  <<p \div rest>> \o Unravel(p % rest, Tail(shape))

RECURSIVE Ravel(_, _)
Ravel(idx, shape) ==
  IF shape = <<>> THEN 0
  ELSE Head(idx) * Numel(Tail(shape)) + Ravel(Tail(idx), Tail(shape))

\* the element of t that broadcasting pairs with multi-index idx of the result
BroadcastAt(t, idx) ==
  LET n == Len(idx)
      k == n - Len(t.shape)
      own == [i \in 1..Len(t.shape) |-> IF t.shape[i] = 1 THEN 0 ELSE idx[i + k]]
  IN  t.vals[Ravel(own, t.shape) + 1]

\* jnp.multiply(a, b)
TMul(a, b) ==
  LET shape == Broadcast(a.shape, b.shape)
  IN  Tensor(shape, [p \in 1..Numel(shape) |->
        RMul(BroadcastAt(a, Unravel(p - 1, shape)),
             BroadcastAt(b, Unravel(p - 1, shape)))])

\* a + b
TAdd(a, b) ==
  LET shape == Broadcast(a.shape, b.shape)
  IN  Tensor(shape, [p \in 1..Numel(shape) |->
        RAdd(BroadcastAt(a, Unravel(p - 1, shape)),
             BroadcastAt(b, Unravel(p - 1, shape)))])

\* jnp.broadcast_to(a, shape) of a 0-d array
BroadcastTo(a, shape) == Tensor(shape, [p \in 1..Numel(shape) |-> a.vals[1]])

\* jnp.expand_dims(a, axis=axes) for a 1-d array: the result has
\* 1 + Len(axes) axes, of size 1 at the (0-based) positions in axes
ExpandDims(a, axes) ==
  LET n == Len(a.shape) + Cardinality(axes)
      kept == {i \in 0..(n - 1) : i \notin axes}
      \* the position of result axis i among the kept axes (1-based)
      rank(i) == Cardinality({j \in kept : j <= i})
  IN  Tensor([i \in 1..n |-> IF (i - 1) \in axes THEN 1 ELSE a.shape[rank(i - 1)]],
             a.vals)

\* np.arange(x.ndim - 1) + 1
PrecondAxes(xs) == {i + 1 : i \in 0..(Len(xs) - 2)}

----------------------------------------------------------------------------
(* Configurations and arguments *)

ChannelChoices == {64, 128}

RatioChoices == {1, 2}

LevelTuples(S) == UNION {[1..n -> S] : n \in 0..MaxLevels}

\* resize_to_shape is None ({}) or a tuple of spatial dims ({t}).  The resize
\* layers are built with the 2-d kernel (7, 7), so a set resize_to_shape goes
\* with inputs of two spatial dims.
ResizeChoices == {{}, {<<4, 4>>}}

Configs(classes, outs) ==
  {c \in [cls : classes,
          out_channels : outs,
          resize_to_shape : ResizeChoices,
          num_channels : LevelTuples(ChannelChoices),
          downsample_ratio : LevelTuples(RatioChoices),
          num_blocks : 0..MaxBlocks,
          use_attention : BOOLEAN,
          use_position_encoding : BOOLEAN,
          cond_embed_dim : {8},
          sigma_data : {1, 2}] :
     Len(c.num_channels) = Len(c.downsample_ratio)}

SpatialChoices == {<<4>>, <<6, 4>>}

\* smaller inputs for PreconditionedDenoiser, whose arrays carry their values
ValuedSpatialChoices == {<<2>>, <<2, 2>>}

XShapes(cls) ==
  {<<b>> \o sp \o <<2>> :
     b \in 1..MaxBatch,
     sp \in IF cls = "UNet" THEN SpatialChoices ELSE ValuedSpatialChoices}

\* sigma: a scalar, a vector of the batch size or of another length, a matrix
SigmaShapes(xs) == {<<>>, <<xs[1]>>, <<xs[1] + 1>>, <<xs[1], 1>>}

NoCond == [is_none |-> TRUE, items |-> <<>>, embedded |-> <<>>]

\* cond entries: a key and the value's shape
CondValue(xs, key, same_ndim) ==
  [key |-> key,
   shape |-> IF same_ndim THEN <<xs[1]>> \o [i \in 1..(Len(xs) - 2) |-> 2] \o <<1>>
             ELSE <<xs[1]>> \o [i \in 1..(Len(xs) - 3) |-> 2] \o <<1>>]

\* cond is None or a dict, given by its items in iteration order
CondChoices(xs) ==
  LET chA == CondValue(xs, "channel:a", TRUE)
      chB == CondValue(xs, "channel:b", TRUE)
      chBad == CondValue(xs, "channel:c", FALSE)
      other == CondValue(xs, "other", TRUE)
      short == CondValue(xs, "chan", TRUE)
  IN  {[is_none |-> TRUE, items |-> <<>>, embedded |-> <<>>]}
      \cup {[is_none |-> FALSE, items |-> it, embedded |-> <<>>] :
              it \in {<<>>, <<other>>, <<chA, chB>>, <<short, chA>>, <<chBad>>}}

----------------------------------------------------------------------------
(* MergeChannelCond.__call__ *)

\* key.startswith(prefix)
StartsWith(key, prefix) ==
  Len(key) >= Len(prefix) /\ SubSeq(key, 1, Len(prefix)) = prefix

\* One iteration of the loop over cond.items(): the ndim check is made for
\* "channel:" keys only; the resize, embedding and concatenation follow at
\* the loop body's own indentation, i.e. for every key.
MergeOneCond(acc, item) ==
  IF acc.err # "" THEN acc
  ELSE IF StartsWith(item.key, "channel:") /\ Len(item.shape) # Len(acc.shape)
    THEN [acc EXCEPT !.err = "ValueError"]
  ELSE IF ~FilteredResizeOk(item.shape, SubSeq(acc.shape, 1, Len(acc.shape) - 1))
    THEN [acc EXCEPT !.err = "LayerError"]
  ELSE [err |-> "",
        shape |-> WithChannels(acc.shape, Channels(acc.shape) + acc.embed_dim),
        embed_dim |-> acc.embed_dim,
        embedded |-> Append(acc.embedded, item.key)]

RECURSIVE MergeLoop(_, _)
MergeLoop(acc, items) ==
  IF items = <<>> THEN acc
  ELSE MergeLoop(MergeOneCond(acc, Head(items)), Tail(items))

MergeChannelCond(xs, items, embed_dim) ==
  MergeLoop([err |-> "", shape |-> xs, embed_dim |-> embed_dim,
             embedded |-> <<>>], items)

----------------------------------------------------------------------------
(* Values of the arguments of PreconditionedDenoiser *)

\* two arrays of distinct entries, of either sign, integers or halves
XValues(shape) ==
  {Tensor(shape, [p \in 1..Numel(shape) |-> Rat(2 * p - 5, k)]) : k \in {1, 2}}

\* noise levels s for which sigma_data^2 + s^2 is the square of a rational
SigmaLevels(sd) == IF sd = 1 THEN {<<3, 4>>, <<4, 3>>} ELSE {<<3, 2>>, <<8, 3>>}

SigmaValues(shape, sd) ==
  {Tensor(shape, v) : v \in [1..Numel(shape) -> SigmaLevels(sd)]}

\* the values a network may return: arrays of distinct entries of either sign
FValues(shape) ==
  {Tensor(shape, [p \in 1..Numel(shape) |-> Rat(k * p - 3, 1)]) : k \in {1, 2}}

NoNum ==
  [x |-> NoTensor, sigma |-> NoTensor, c_skip |-> NoTensor, c_out |-> NoTensor,
   c_in |-> NoTensor, c_noise |-> NoTensor, x_in |-> NoTensor, f_x |-> NoTensor,
   out |-> NoTensor]

----------------------------------------------------------------------------
(* State shared by the actions *)

NumLevels == Len(cfg.num_channels)

\* len(self.num_channels) * (self.num_blocks,): the num_res_blocks UNet
\* passes to both stacks
num_res_blocks == [i \in 1..NumLevels |-> cfg.num_blocks]

\* the num_channels and upsample_ratio UNet passes to UStack
UStackChannels == Reversed(cfg.num_channels)

upsample_ratio == Reversed(cfg.downsample_ratio)

\* a layer applied; its name starts with "res" and the stack's current res
LayerEvent(op, stack, lvl, blk) ==
  [op |-> op, stack |-> stack, level |-> lvl, block |-> blk, res |-> res]

\* an exception leaves __call__: the outermost call raises it
Fail(what) ==
  /\ result' = Raise(what)
  /\ pc' = "done"

\* None is {}; a value v is {v}
None == {}

Some(v) == {v}

NoBatch == [cond |-> None, obs |-> NoTensor]

NoMetrics == [none |-> TRUE]

\* no benchmark: the state of bench where only a network is run
NoBench ==
  [num_samples_per_cond |-> 1, sample_batch_size |-> 1,
   brier_score_thresholds |-> <<>>, bpc |-> "none", batch |-> NoBatch, rng |-> 0,
   rngs |-> <<>>, cond |-> None, guidance_inputs |-> None, calls |-> <<>>,
   samples |-> <<>>, pred |-> NoTensor, collected |-> NoMetrics,
   aggregated |-> NoMetrics]

unet_locals == <<ux, usigma, input_size, res, h, skips, level, block_id>>

call_args == <<x, sigma>>

logs == <<layers_log, combines>>

----------------------------------------------------------------------------
(* UNet.__call__ *)

\* the caller invokes module(x, sigma, cond, is_training=...)
Call ==
  /\ pc = "idle"
  /\ \E xs \in XShapes(cfg.cls) : \E ss \in SigmaShapes(xs) :
       /\ cfg.resize_to_shape # {} => Len(xs) = 4
       /\ x' = xs
       /\ sigma' = ss
       /\ IF cfg.cls = "UNet"
            THEN /\ ux' = xs
                 /\ usigma' = ss
                 /\ pc' = "unet_check"
                 /\ UNCHANGED num
            ELSE /\ \E xv \in XValues(xs) : \E sv \in SigmaValues(ss, cfg.sigma_data) :
                      num' = [num EXCEPT !.x = xv, !.sigma = sv]
                 /\ UNCHANGED <<ux, usigma>>
                 /\ pc' = "den_check"
  /\ UNCHANGED <<cfg, bench, cond, input_size, res, h, skips, level, block_id, logs, result>>

\* if sigma.ndim < 1: sigma = jnp.broadcast_to(sigma, (x.shape[0],))
BroadcastSigma(sig, xs) == IF Len(sig) < 1 THEN <<xs[1]>> ELSE sig

\* a variant of SigmaRejected: the batch sizes are not compared
SigmaRejected_NdimOnly(sig, xs) == Len(sig) # 1

\* if sigma.ndim != 1 or x.shape[0] != sigma.shape[0]: raise ValueError
SigmaRejected(sig, xs) == Len(sig) # 1 \/ xs[1] # sig[1]

UNetCheckSigma ==
  /\ pc = "unet_check"
  /\ LET sig == BroadcastSigma(usigma, ux)
     IN  IF SigmaRejected(sig, ux)
           THEN /\ Fail("ValueError")
                /\ UNCHANGED <<usigma, input_size>>
           ELSE /\ usigma' = sig
                /\ input_size' = SpatialOf(ux)
                /\ pc' = "unet_resize"
                /\ UNCHANGED result
  /\ UNCHANGED <<cfg, bench, num, call_args, cond, ux, res, h, skips, level, block_id, logs>>

\* if self.resize_to_shape is not None: x = FilteredResize(...)(x)
UNetResizeInput ==
  /\ pc = "unet_resize"
  /\ IF cfg.resize_to_shape # {}
       THEN \E t \in cfg.resize_to_shape : ux' = FilteredResize(ux, t)
       ELSE UNCHANGED ux
  /\ pc' = "unet_merge"
  /\ UNCHANGED <<cfg, bench, num, call_args, cond, usigma, input_size, res, h, skips, level,
                 block_id, logs, result>>

\* cond = {} if cond is None else cond; x = MergeChannelCond(...)(x, cond)
UNetMergeCond ==
  /\ pc = "unet_merge"
  /\ \E c \in CondChoices(ux) :
       LET items == IF c.is_none THEN <<>> ELSE c.items
           m == MergeChannelCond(ux, items, cfg.cond_embed_dim)
       IN  /\ cond' = [c EXCEPT !.embedded = m.embedded]
           /\ IF m.err # ""
                THEN /\ Fail(m.err)
                     /\ UNCHANGED h
                ELSE /\ h' = m.shape
                     /\ pc' = "dstack_conv_in"
                     /\ UNCHANGED result
  /\ UNCHANGED <<cfg, bench, num, call_args, ux, usigma, input_size, res, skips, level, block_id,
                 logs>>

----------------------------------------------------------------------------
(* DStack.__call__ *)

Skip(shape, lvl, blk) == [shape |-> shape, level |-> lvl, block |-> blk]

\* where the loops of DStack go after level lvl's downsampling / a block
DStackNext(lvl, blk) ==
  IF blk < num_res_blocks[lvl + 1] THEN <<"dstack_block", lvl, blk>>
  ELSE <<"dstack_level", lvl + 1, 0>>

\* h = ConvLayer(features=128, name="conv_in")(x); skips.append(h)
DStackSkipsInit(shape) == <<Skip(shape, -1, -1)>>

DStackConvIn ==
  /\ pc = "dstack_conv_in"
  /\ LET out == ConvLayer(h, 128)
     IN  /\ h' = out
         /\ skips' = DStackSkipsInit(out)
  /\ res' = SpatialOf(h)
  /\ level' = 0
  /\ block_id' = 0
  /\ pc' = "dstack_level"
  \* cond and the merged input are dead once conv_in has consumed them
  /\ cond' = NoCond
  /\ UNCHANGED <<cfg, bench, num, call_args, ux, usigma, input_size, logs, result>>

\* for level, channel in enumerate(self.num_channels): h = DownsampleConv(...)(h)
DStackDownsample ==
  /\ pc = "dstack_level"
  /\ level < NumLevels
  /\ LET ratio == cfg.downsample_ratio[level + 1]
         channel == cfg.num_channels[level + 1]
         nxt == DStackNext(level, 0)
     IN  IF ~DownsampleConvOk(h, ratio)
           THEN /\ Fail("ValueError")
                /\ UNCHANGED <<h, res, level, block_id>>
           ELSE /\ h' = DownsampleConv(h, channel, ratio)
                /\ res' = [i \in 1..Len(res) |-> res[i] \div ratio]
                /\ pc' = nxt[1]
                /\ level' = nxt[2]
                /\ block_id' = nxt[3]
                /\ UNCHANGED result
  /\ UNCHANGED <<cfg, bench, num, call_args, cond, ux, usigma, input_size, skips, logs>>

\* if self.use_attention and level == len(self.num_channels) - 1
DStackAttentionAt(lvl) == cfg.use_attention /\ lvl = NumLevels - 1

\* position_embedding(ndim=kernel_dim): 1D or 2D only; 2D needs even channels
PositionEmbeddingOk(shape) ==
  /\ Len(shape) - 2 \in {1, 2}
  /\ Len(shape) - 2 = 2 => Channels(shape) % 2 = 0

\* the layers applied after the ConvBlock of DStack's block (lvl, blk)
DStackBlockLayers(lvl, blk) ==
  IF DStackAttentionAt(lvl)
    THEN (IF cfg.use_position_encoding
            THEN <<LayerEvent("position_embedding", "down", lvl, blk)>>
            ELSE <<>>)
         \o <<LayerEvent("AttentionBlock", "down", lvl, blk),
              LayerEvent("ResConv1x", "down", lvl, blk)>>
    ELSE <<>>

\* a variant of DStackAppend: the append made in the no-attention branch only
DStackAppend_ElseBranchOnly(sk, shape, lvl, blk) ==
  IF DStackAttentionAt(lvl) THEN sk ELSE Append(sk, Skip(shape, lvl, blk))

\* skips.append(h) at the end of a block
DStackAppend(sk, shape, lvl, blk) == Append(sk, Skip(shape, lvl, blk))

\* for block_id in range(self.num_res_blocks[level]): ConvBlock, attention, append
DStackBlock ==
  /\ pc = "dstack_block"
  /\ LET channel == cfg.num_channels[level + 1]
         out == ConvLayer(h, channel)
         nxt == DStackNext(level, block_id + 1)
     IN  IF DStackAttentionAt(level) /\ cfg.use_position_encoding
            /\ ~PositionEmbeddingOk(out)
           THEN /\ Fail("ValueError")
                /\ UNCHANGED <<h, skips, level, block_id, layers_log>>
           ELSE /\ h' = out
                /\ layers_log' = layers_log \o DStackBlockLayers(level, block_id)
                /\ skips' = DStackAppend(skips, out, level, block_id)
                /\ pc' = nxt[1]
                /\ level' = nxt[2]
                /\ block_id' = nxt[3]
                /\ UNCHANGED result
  /\ UNCHANGED <<cfg, bench, num, call_args, cond, ux, usigma, input_size, res, combines>>

----------------------------------------------------------------------------
(* UStack.__call__ *)

UStackNext(lvl, blk) ==
  IF lvl >= NumLevels THEN <<"ustack_final", lvl, 0>>
  ELSE IF blk < num_res_blocks[lvl + 1] THEN <<"ustack_block", lvl, blk>>
  ELSE <<"ustack_upsample", lvl, 0>>

\* DStack returns skips; UNet calls UStack(...)(skips[-1], emb, skips); h = x
UStackEnter ==
  /\ pc = "dstack_level"
  /\ level = NumLevels
  /\ h' = skips[Len(skips)].shape
  /\ res' = SpatialOf(skips[Len(skips)].shape)
  /\ LET nxt == UStackNext(0, 0)
     IN  /\ pc' = nxt[1]
         /\ level' = nxt[2]
         /\ block_id' = nxt[3]
  /\ UNCHANGED <<cfg, bench, num, call_args, cond, ux, usigma, input_size, skips, logs, result>>

\* a variant of UStackAttentionAt: the level test copied from DStack
UStackAttentionAt_AsInDStack(lvl) == cfg.use_attention /\ lvl = NumLevels - 1

\* if self.use_attention and level == 0:  # opposite to DStack
UStackAttentionAt(lvl) == cfg.use_attention /\ lvl = 0

UStackBlockLayers(lvl, blk) ==
  IF UStackAttentionAt(lvl)
    THEN <<LayerEvent("AttentionBlock", "up", lvl, blk),
           LayerEvent("ResConv1x", "up", lvl, blk)>>
    ELSE <<>>

\* project_skip = h.shape[-1] != skips[-1].shape[-1]
ProjectSkip(shape, skip) == Channels(shape) # Channels(skip.shape)

\* a variant of PopIndex: skips.pop(0)
PopIndex_First(sk) == 1

\* skips.pop(): the last element leaves the list
PopIndex(sk) == Len(sk)

CombineEvent(lvl, blk, shape, skip) ==
  [level |-> lvl, block |-> blk, h |-> shape, skip |-> skip,
   project_skip |-> ProjectSkip(shape, skip)]

\* h = CombineResidualWithSkip(project_skip=...)(residual=h, skip=skips.pop());
\* h = ConvBlock(...)(h, emb); attention at level 0
UStackBlock ==
  /\ pc = "ustack_block"
  /\ IF skips = <<>>
       THEN /\ Fail("IndexError")
            /\ UNCHANGED <<h, skips, level, block_id, logs>>
       ELSE LET i == PopIndex(skips)
                skip == skips[i]
                project == ProjectSkip(h, skip)
                channel == UStackChannels[level + 1]
                nxt == UStackNext(level, block_id + 1)
            IN  /\ skips' = SubSeq(skips, 1, i - 1) \o SubSeq(skips, i + 1, Len(skips))
                /\ combines' = Append(combines, CombineEvent(level, block_id, h, skip))
                /\ IF ~CombineOk(project, h, skip.shape)
                     THEN /\ Fail("TypeError")
                          /\ UNCHANGED <<h, level, block_id, layers_log>>
                     ELSE LET out == ConvLayer(
                                CombineResidualWithSkip(project, h, skip.shape), channel)
                          IN  /\ h' = out
                              /\ layers_log' = layers_log
                                   \o UStackBlockLayers(level, block_id)
                              /\ pc' = nxt[1]
                              /\ level' = nxt[2]
                              /\ block_id' = nxt[3]
                              /\ UNCHANGED result
  /\ UNCHANGED <<cfg, bench, num, call_args, cond, ux, usigma, input_size, res>>

\* up_ratio = self.upsample_ratio[level]; ConvLayer(up_ratio**kernel_dim *
\* channel); channel_to_space
UStackUpsample ==
  /\ pc = "ustack_upsample"
  /\ LET up_ratio == upsample_ratio[level + 1]
         channel == UStackChannels[level + 1]
         kernel_dim == Len(h) - 2
         nxt == UStackNext(level + 1, 0)
     IN  /\ h' = channel_to_space(
                   ConvLayer(h, Pow(up_ratio, kernel_dim) * channel), up_ratio)
         /\ res' = [i \in 1..Len(res) |-> res[i] * up_ratio]
         /\ pc' = nxt[1]
         /\ level' = nxt[2]
         /\ block_id' = nxt[3]
  /\ UNCHANGED <<cfg, bench, num, call_args, cond, ux, usigma, input_size, skips, logs, result>>

\* the final CombineResidualWithSkip with skips.pop(), then conv_out (128)
UStackFinal ==
  /\ pc = "ustack_final"
  /\ IF skips = <<>>
       THEN /\ Fail("IndexError")
            /\ UNCHANGED <<h, skips, combines>>
       ELSE LET i == PopIndex(skips)
                skip == skips[i]
                project == ProjectSkip(h, skip)
            IN  /\ skips' = SubSeq(skips, 1, i - 1) \o SubSeq(skips, i + 1, Len(skips))
                /\ combines' = Append(combines, CombineEvent(level, -1, h, skip))
                /\ IF ~CombineOk(project, h, skip.shape)
                     THEN /\ Fail("TypeError")
                          /\ UNCHANGED h
                     ELSE /\ h' = ConvLayer(
                                CombineResidualWithSkip(project, h, skip.shape), 128)
                          /\ pc' = "unet_out"
                          /\ UNCHANGED result
  /\ UNCHANGED <<cfg, bench, num, call_args, cond, ux, usigma, input_size, res, level, block_id,
                 layers_log>>

\* a variant of UNetOutputShape: the output is not resized back to input_size
UNetOutputShape_NoResizeBack(shape) == ConvLayer(shape, cfg.out_channels)

\* h = swish(GroupNorm(h)); h = ConvLayer(features=self.out_channels);
\* if self.resize_to_shape: h = FilteredResize(output_size=input_size)(h)
UNetOutputShape(shape) ==
  LET out == ConvLayer(shape, cfg.out_channels)
  IN  IF cfg.resize_to_shape # {} THEN FilteredResize(out, input_size) ELSE out

\* return h: to the caller, or to PreconditionedDenoiser.__call__ as f_x
UNetReturn ==
  /\ pc = "unet_out"
  /\ LET out == UNetOutputShape(h)
     IN  /\ h' = out
         /\ IF cfg.cls = "UNet"
              THEN /\ result' = Return(out)
                   /\ pc' = "done"
                   /\ UNCHANGED num
              ELSE /\ \E f \in FValues(out) : num' = [num EXCEPT !.f_x = f]
                   /\ pc' = "den_return"
                   /\ UNCHANGED result
  /\ UNCHANGED <<cfg, bench, call_args, cond, ux, usigma, input_size, res, skips, level,
                 block_id, logs>>

UNetNext ==
  \/ Call
  \/ UNetCheckSigma
  \/ UNetResizeInput
  \/ UNetMergeCond
  \/ DStackConvIn
  \/ DStackDownsample
  \/ DStackBlock
  \/ UStackEnter
  \/ UStackBlock
  \/ UStackUpsample
  \/ UStackFinal
  \/ UNetReturn

InitLocals ==
  /\ pc = "idle"
  /\ x = <<>>
  /\ sigma = <<>>
  /\ cond = NoCond
  /\ ux = <<>>
  /\ usigma = <<>>
  /\ input_size = <<>>
  /\ res = <<>>
  /\ h = <<>>
  /\ skips = <<>>
  /\ level = 0
  /\ block_id = 0
  /\ layers_log = <<>>
  /\ combines = <<>>
  /\ result = NoResult
  /\ num = NoNum

\* a constructed UNet
Init ==
  /\ cfg \in {c \in Configs({"UNet"}, {3}) : c.sigma_data = 1}
  /\ InitLocals
  /\ bench = NoBench

Spec == Init /\ [][UNetNext]_vars

----------------------------------------------------------------------------
(* PreconditionedDenoiser.__call__ *)

MaxDenoiserLevels == 1

MaxDenoiserBlocks == 1

\* total_var = jnp.square(self.sigma_data) + jnp.square(sigma)
TotalVar(s, sd) == RAdd(RSquare(sd), RSquare(s))

\* c_skip = jnp.square(self.sigma_data) / total_var
CSkip(s, sd) == RDiv(RSquare(sd), TotalVar(s, sd))

\* a variant of COut: the square root of total_var left out
COut_NoSqrt(s, sd) == RDiv(RMul(s, sd), TotalVar(s, sd))

\* c_out = sigma * self.sigma_data / jnp.sqrt(total_var)
COut(s, sd) == RDiv(RMul(s, sd), RSqrt(TotalVar(s, sd)))

\* c_in = 1 / jnp.sqrt(total_var)
CIn(s, sd) == RDiv(ROne, RSqrt(TotalVar(s, sd)))

\* c_noise = 0.25 * jnp.log(sigma)
CNoise(s) == LogScale(<<1, 4>>, RLog(s))

SigmaData == <<cfg.sigma_data, 1>>

\* the noise-level check of PreconditionedDenoiser.__call__
DenoiserCheckSigma ==
  /\ pc = "den_check"
  /\ LET sig == BroadcastSigma(num.sigma.shape, x)
     IN  IF SigmaRejected(sig, x)
           THEN /\ Fail("ValueError")
                /\ UNCHANGED num
           ELSE /\ num' = [num EXCEPT !.sigma =
                             IF Len(num.sigma.shape) < 1
                               THEN BroadcastTo(num.sigma, sig) ELSE num.sigma]
                /\ pc' = "den_precondition"
                /\ UNCHANGED result
  /\ UNCHANGED <<cfg, bench, call_args, cond, unet_locals, logs>>

\* the coefficients, their expand_dims, and the call
\* super().__call__(jnp.multiply(c_in, x), c_noise, cond, ...)
DenoiserPrecondition ==
  /\ pc = "den_precondition"
  /\ LET sig == num.sigma
         n == Len(sig.vals)
         axes == PrecondAxes(x)
         c_skip == Tensor(sig.shape, [p \in 1..n |-> CSkip(sig.vals[p], SigmaData)])
         c_out == Tensor(sig.shape, [p \in 1..n |-> COut(sig.vals[p], SigmaData)])
         c_in == Tensor(sig.shape, [p \in 1..n |-> CIn(sig.vals[p], SigmaData)])
         c_noise == Tensor(sig.shape, [p \in 1..n |-> CNoise(sig.vals[p])])
         x_in == TMul(ExpandDims(c_in, axes), num.x)
     IN  /\ num' = [num EXCEPT !.c_skip = ExpandDims(c_skip, axes),
                               !.c_out = ExpandDims(c_out, axes),
                               !.c_in = ExpandDims(c_in, axes),
                               !.c_noise = c_noise,
                               !.x_in = x_in]
         /\ ux' = x_in.shape
         /\ usigma' = c_noise.shape
  /\ pc' = "unet_check"
  /\ UNCHANGED <<cfg, bench, call_args, cond, input_size, res, h, skips, level, block_id, logs,
                 result>>

\* return jnp.multiply(c_skip, x) + jnp.multiply(c_out, f_x)
DenoiserReturn ==
  /\ pc = "den_return"
  /\ IF ~BroadcastOk(x, num.f_x.shape)
       THEN /\ Fail("TypeError")
            /\ UNCHANGED num
       ELSE LET out == TAdd(TMul(num.c_skip, num.x), TMul(num.c_out, num.f_x))
            IN  /\ num' = [num EXCEPT !.out = out]
                /\ result' = Return(out.shape)
                /\ pc' = "done"
  /\ UNCHANGED <<cfg, bench, call_args, cond, unet_locals, logs>>

DenoiserNext ==
  \/ UNetNext
  \/ DenoiserCheckSigma
  \/ DenoiserPrecondition
  \/ DenoiserReturn

\* a constructed UNet or PreconditionedDenoiser over a small network
InitDenoiser ==
  /\ cfg \in {c \in Configs({"UNet", "PreconditionedDenoiser"}, {2, 3}) :
                /\ Len(c.num_channels) <= MaxDenoiserLevels
                /\ c.num_blocks <= MaxDenoiserBlocks
                /\ c.resize_to_shape = {}
                /\ c.use_position_encoding = c.use_attention
                /\ c.cls = "UNet" => c.sigma_data = 1}
  /\ InitLocals
  /\ bench = NoBench

SpecDenoiser == InitDenoiser /\ [][DenoiserNext]_vars

----------------------------------------------------------------------------
(* Properties of the forward pass *)

\* 1 + L*B: conv_in's output plus one skip per ConvBlock
ExpectedSkips == 1 + NumLevels * cfg.num_blocks

InUStack == pc \in {"ustack_block", "ustack_upsample", "ustack_final"}

DStackReturned == pc = "dstack_level" /\ level = NumLevels

UStackReturned == pc \in {"unet_out", "den_return"} \/ result.kind = "return"

\* C1: DStack returns exactly 1 + L*B skips, UStack pops exactly 1 + L*B of
\* them, no pop is made on an empty list, and the list is empty when UStack
\* returns.
C1_SkipsBalance ==
  /\ DStackReturned => Len(skips) = ExpectedSkips
  /\ InUStack => Len(skips) + Len(combines) = ExpectedSkips
  /\ UStackReturned => skips = <<>> /\ Len(combines) = ExpectedSkips
  /\ ~(result.kind = "raise" /\ result.what = "IndexError")

C1_Witness ==
  /\ pc = "unet_out"
  /\ NumLevels = 2
  /\ cfg.num_blocks = 2
  /\ skips = <<>>
  /\ Len(combines) = 5

IsAttentionLayer(e) == e.op \in {"AttentionBlock", "ResConv1x"}

\* the resolution of the coarsest level: that of the stacks' input divided by
\* the product of all downsample ratios
CoarsestRes ==
  [i \in 1..Len(SpatialOf(ux)) |-> SpatialOf(ux)[i] \div ProdSeq(cfg.downsample_ratio)]

LogHas(op, stack, lvl, blk) ==
  \E i \in 1..Len(layers_log) :
    /\ layers_log[i].op = op
    /\ layers_log[i].stack = stack
    /\ layers_log[i].level = lvl
    /\ layers_log[i].block = blk

\* C2: with use_attention, DStack applies an AttentionBlock followed by a
\* ResConv1x after every ConvBlock of its last level and UStack after every
\* ConvBlock of its level 0, both at the coarsest resolution, and nowhere
\* else; without use_attention no attention block and no position embedding
\* is applied; a position embedding is applied in DStack only, and only when
\* use_attention and use_position_encoding are both set.
C2_AttentionAtCoarsest ==
  /\ \A i \in 1..Len(layers_log) :
       LET e == layers_log[i]
       IN  /\ cfg.use_attention
           /\ e.stack = "down" => e.level = NumLevels - 1
           /\ e.stack = "up" => e.level = 0
           /\ e.res = CoarsestRes
           /\ e.op = "position_embedding" =>
                e.stack = "down" /\ cfg.use_position_encoding
           /\ e.op = "AttentionBlock" =>
                /\ i < Len(layers_log)
                /\ layers_log[i + 1] = [e EXCEPT !.op = "ResConv1x"]
  /\ (cfg.use_attention /\ UStackReturned /\ NumLevels >= 1) =>
       \A b \in 0..(cfg.num_blocks - 1) :
         /\ LogHas("AttentionBlock", "down", NumLevels - 1, b)
         /\ LogHas("AttentionBlock", "up", 0, b)
         /\ cfg.use_position_encoding =>
              LogHas("position_embedding", "down", NumLevels - 1, b)

C2_Witness ==
  /\ pc = "unet_out"
  /\ cfg.use_attention
  /\ cfg.use_position_encoding
  /\ NumLevels = 2
  /\ cfg.num_blocks = 2
  /\ ProdSeq(cfg.downsample_ratio) = 4
  /\ Len(layers_log) = 10

\* C4: a call of UNet that returns, returns an array of x's batch size and
\* spatial shape with out_channels channels, resize_to_shape set or not.
C4_OutputShape ==
  (cfg.cls = "UNet" /\ result.kind = "return") =>
    result.shape = <<x[1]>> \o SpatialOf(x) \o <<cfg.out_channels>>

C4_Witness ==
  /\ cfg.cls = "UNet"
  /\ result.kind = "return"
  /\ cfg.resize_to_shape # {}
  /\ SpatialOf(x) \notin cfg.resize_to_shape
  /\ NumLevels = 2
  /\ cfg.num_blocks >= 1
  /\ ProdSeq(cfg.downsample_ratio) = 4

ChannelKeys(items) ==
  {i \in 1..Len(items) : StartsWith(items[i].key, "channel:")}

\* C6: MergeChannelCond processes the entries of cond whose key starts with
\* "channel:" and omits all others: the result has x.shape[-1] + embed_dim *
\* (number of "channel:" keys) channels, no other key is embedded, and an
\* empty cond returns x unchanged.
C6_OnlyChannelKeysMerged ==
  pc = "dstack_conv_in" =>
    /\ Channels(h) =
         Channels(ux) + cfg.cond_embed_dim * Cardinality(ChannelKeys(cond.items))
    /\ \A i \in 1..Len(cond.embedded) : StartsWith(cond.embedded[i], "channel:")
    /\ cond.items = <<>> => h = ux

\* C10: with B >= 1, the skip popped at UStack's level i, block j is the one
\* DStack appended at level L-1-i, block B-1-j, and the final pop is conv_in's
\* output; at every combine the skip has h's spatial shape, project_skip is
\* set exactly when the channel counts differ, and the first combine joins
\* skips[-1] with itself without projection.
C10_SkipsLifo ==
  cfg.num_blocks >= 1 =>
    \A k \in 1..Len(combines) :
      LET c == combines[k]
      IN  /\ c.block >= 0 =>
               /\ c.skip.level = NumLevels - 1 - c.level
               /\ c.skip.block = cfg.num_blocks - 1 - c.block
          /\ c.block = -1 => c.skip.level = -1 /\ c.skip.block = -1
          /\ SpatialOf(c.skip.shape) = SpatialOf(c.h)
          /\ c.project_skip <=> Channels(c.h) # Channels(c.skip.shape)
          /\ k = 1 => c.skip.shape = c.h /\ ~c.project_skip

C10_Witness ==
  /\ pc = "unet_out"
  /\ NumLevels = 2
  /\ cfg.num_blocks = 2
  /\ cfg.downsample_ratio = <<2, 2>>
  /\ cfg.num_channels = <<64, 128>>
  /\ \E k \in 1..Len(combines) : combines[k].project_skip
  /\ combines[5].skip.level = -1

----------------------------------------------------------------------------
(* Properties of the preconditioned denoiser and of the noise-level checks *)

IsDenoiser == cfg.cls = "PreconditionedDenoiser"

\* the batch element (1-based) that holds row-major position p of an array
BatchOf(p, shape) == ((p - 1) \div Numel(Tail(shape))) + 1

\* c = sigma_data^2 / (sigma_data^2 + s^2)
IsCSkip(c, s, sd) == RMul(c, RAdd(RSquare(sd), RSquare(s))) = RSquare(sd)

\* c = s * sigma_data / sqrt(sigma_data^2 + s^2), for s, sigma_data > 0
IsCOut(c, s, sd) ==
  /\ c[1] > 0
  /\ RMul(RSquare(c), RAdd(RSquare(sd), RSquare(s))) = RMul(RSquare(s), RSquare(sd))

\* c = 1 / sqrt(sigma_data^2 + s^2)
IsCIn(c, s, sd) ==
  /\ c[1] > 0
  /\ RMul(RSquare(c), RAdd(RSquare(sd), RSquare(s))) = ROne

\* c = 0.25 * ln(s)
IsCNoise(c, s) == c = [coef |-> <<1, 4>>, ln |-> s]

\* C3: PreconditionedDenoiser returns c_skip*x + c_out*F(c_in*x, c_noise, cond)
\* with, per batch element, c_skip = sd^2/(sd^2+s^2), c_out = s*sd/sqrt(sd^2+s^2),
\* c_in = 1/sqrt(sd^2+s^2), c_noise = 0.25*ln(s); the first three act on every
\* entry of their batch element, and c_noise is the UNet's 1-d noise level.
C3_Preconditioning ==
  (IsDenoiser /\ pc = "done" /\ result.kind = "return") =>
    LET sd == <<cfg.sigma_data, 1>>
        s(b) == num.sigma.vals[b]
    IN  /\ num.c_noise.shape = <<x[1]>>
        /\ usigma = <<x[1]>>
        /\ ux = x
        /\ num.x_in.shape = x
        /\ num.out.shape = x
        /\ result.shape = x
        /\ \A b \in 1..x[1] :
             /\ IsCSkip(num.c_skip.vals[b], s(b), sd)
             /\ IsCOut(num.c_out.vals[b], s(b), sd)
             /\ IsCIn(num.c_in.vals[b], s(b), sd)
             /\ IsCNoise(num.c_noise.vals[b], s(b))
        /\ \A p \in 1..Numel(x) :
             LET b == BatchOf(p, x)
             IN  /\ num.x_in.vals[p] = RMul(num.c_in.vals[b], num.x.vals[p])
                 /\ num.out.vals[p] =
                      RAdd(RMul(num.c_skip.vals[b], num.x.vals[p]),
                           RMul(num.c_out.vals[b], num.f_x.vals[p]))

C3_Witness ==
  /\ IsDenoiser
  /\ pc = "done"
  /\ result.kind = "return"
  /\ x[1] = 2
  /\ cfg.sigma_data = 2
  /\ num.sigma.vals[1] # num.sigma.vals[2]
  /\ NumLevels = 1

\* the noise level is a scalar or a vector of x's batch size
SigmaAccepted == sigma = <<>> \/ sigma = <<x[1]>>

\* the outermost call's own check has been made
PastCheck ==
  IF IsDenoiser THEN pc \notin {"idle", "den_check"}
  ELSE pc \notin {"idle", "unet_check"}

\* the call raised ValueError before anything else ran
RaisedAtCheck ==
  /\ result.kind = "raise"
  /\ result.what = "ValueError"
  /\ input_size = <<>>

NothingApplied ==
  /\ h = <<>>
  /\ skips = <<>>
  /\ res = <<>>
  /\ cond = NoCond
  /\ layers_log = <<>>
  /\ combines = <<>>
  /\ num.x_in = NoTensor
  /\ num.c_noise = NoTensor

\* C5: a 0-d sigma is broadcast to (batch,); after that ValueError is raised
\* exactly when sigma is not 1-d or its length is not x.shape[0]; the check
\* comes before any layer; the UNet's check never rejects the c_noise of a
\* sigma that PreconditionedDenoiser accepted.
C5_SigmaValidation ==
  /\ PastCheck => (RaisedAtCheck <=> ~SigmaAccepted)
  /\ RaisedAtCheck => NothingApplied
  /\ (PastCheck /\ ~RaisedAtCheck /\ IsDenoiser) =>
       /\ num.sigma.shape = <<x[1]>>
       /\ sigma = <<>> => \A b \in 1..x[1] : num.sigma.vals[b] = num.sigma.vals[1]
  /\ (PastCheck /\ ~RaisedAtCheck /\ pc \notin {"den_precondition", "unet_check"}) =>
       usigma = <<x[1]>>

C5_Witness ==
  /\ pc = "unet_resize"
  /\ IsDenoiser
  /\ sigma = <<>>
  /\ x[1] = 2
  /\ usigma = <<2>>

----------------------------------------------------------------------------
(* evaluate.py: CondSamplingBenchmark *)

MaxSamples == 4

\* shapes of one sample
SampleShapes == {<<2>>, <<1, 2>>}

\* the entry of a sample: (call, row, position) for a sample, (-1, -1,
\* position) for the observation
Label(k, i, e) == <<k, i, e>>

\* a conditional sampler returns num_samples samples, told apart by the call
\* (its key) and the row
InferenceFn(num_samples, key, sample_shape) ==
  LET shape == <<num_samples>> \o sample_shape
  IN  Tensor(shape, [p \in 1..Numel(shape) |->
        Label(key.index, (p - 1) \div Numel(sample_shape),
              (p - 1) % Numel(sample_shape))])

Observation(sample_shape) ==
  LET shape == <<1>> \o sample_shape
  IN  Tensor(shape, [p \in 1..Numel(shape) |-> Label(-1, -1, p - 1)])

\* batch["cond"]: None, or a dict of arrays with a leading axis
CondDicts == {[c |-> <<1, 2, 1>>, d |-> <<1, 3>>], [c |-> <<2, 2, 1>>]}

Batches ==
  LET base == {[cond |-> c, obs |-> Observation(sh)] :
                 c \in {None} \cup {Some(d) : d \in CondDicts}, sh \in SampleShapes}
  IN  base \cup {[cond |-> b.cond, obs |-> b.obs, guidance_inputs |-> g] :
                   b \in base, g \in {None, Some([g |-> <<1, 2>>])}}

\* a variant of PostInitRejects: the operands of % exchanged
PostInitRejects_Exchanged(n, b) == b % n # 0

\* if self.num_samples_per_cond % self.sample_batch_size != 0: raise ValueError
PostInitRejects(n, b) == n % b # 0

\* num_batches = self.num_samples_per_cond // self.sample_batch_size
NumBatches == bench.num_samples_per_cond \div bench.sample_batch_size

\* jax.random.split(rng, num=num_batches)
SplitKeys(rng, n) == [k \in 1..n |-> [parent |-> rng, index |-> k - 1]]

\* jnp.squeeze(x, axis=0) on every leaf of batch["cond"]
SqueezeOk(c) == \A d \in c : \A k \in DOMAIN d : d[k][1] = 1

SqueezeCond(c) == {[k \in DOMAIN d |-> Tail(d[k])] : d \in c}

\* batch["guidance_inputs"] if "guidance_inputs" in batch else None
GuidanceInputs(batch) ==
  IF "guidance_inputs" \in DOMAIN batch THEN batch.guidance_inputs ELSE None

\* a variant of InferenceNumSamples: every call asked for all the samples
InferenceNumSamples_All == bench.num_samples_per_cond

\* num_samples=self.sample_batch_size in _batch_inference_fn
InferenceNumSamples == bench.sample_batch_size

\* jax.lax.map stacks the results along a new leading axis
RECURSIVE ConcatVals(_)
ConcatVals(ts) == IF ts = <<>> THEN <<>> ELSE Head(ts).vals \o ConcatVals(Tail(ts))

Stack(ts) == Tensor(<<Len(ts)>> \o ts[1].shape, ConcatVals(ts))

\* (1, -1) + samples.shape[2:]
ReshapeTarget(shape) ==
  LET rest == SubSeq(shape, 3, Len(shape))
  IN  <<1, Numel(shape) \div Numel(rest)>> \o rest

\* jnp.reshape keeps the row-major order of the entries
Reshape(t, shape) == Tensor(shape, t.vals)

\* pred[:, j]
TakeAxis1(t, j) ==
  LET shape == <<t.shape[1]>> \o SubSeq(t.shape, 3, Len(t.shape))
  IN  Tensor(shape, [p \in 1..Numel(shape) |->
        LET idx == Unravel(p - 1, shape)
        IN  t.vals[Ravel(<<idx[1], j>> \o Tail(idx), t.shape) + 1]])

\* a variant of Example1: pred[:, -1]
Example1_Last(pred) == TakeAxis1(pred, pred.shape[2] - 1)

\* example1=pred[:, 0]
Example1(pred) == TakeAxis1(pred, 0)

\* the metrics are kept as terms over their arguments
Metric(fn, pred, obs, extra) == [fn |-> fn, pred |-> pred, obs |-> obs, extra |-> extra]

unet_vars == <<cfg, pc, x, sigma, cond, ux, usigma, input_size, res, h, skips, level,
               block_id, layers_log, combines, result, num>>

\* CondSamplingBenchmark(...): the dataclass's __init__ runs __post_init__
Construct ==
  /\ bench.bpc = "new"
  /\ bench' = [bench EXCEPT !.bpc =
       IF PostInitRejects(bench.num_samples_per_cond, bench.sample_batch_size)
         THEN "ValueError" ELSE "constructed"]
  /\ UNCHANGED unet_vars

\* run_batch_inference up to the call of jax.lax.map
RunBatchInference ==
  /\ bench.bpc = "constructed"
  /\ \E batch \in Batches : \E rng \in {7} :
       bench' = [bench EXCEPT
         !.batch = batch,
         !.rng = rng,
         !.rngs = SplitKeys(rng, NumBatches),
         !.cond = IF SqueezeOk(batch.cond) THEN SqueezeCond(batch.cond) ELSE None,
         !.guidance_inputs = GuidanceInputs(batch),
         !.bpc = IF SqueezeOk(batch.cond) THEN "mapping" ELSE "SqueezeError"]
  /\ UNCHANGED unet_vars

\* one step of jax.lax.map(_batch_inference_fn, rngs)
BatchInferenceFn ==
  /\ bench.bpc = "mapping"
  /\ Len(bench.calls) < Len(bench.rngs)
  /\ LET key == bench.rngs[Len(bench.calls) + 1]
         call == [num_samples |-> InferenceNumSamples, rng |-> key,
                  cond |-> bench.cond, guidance_inputs |-> bench.guidance_inputs]
     IN  bench' = [bench EXCEPT
           !.calls = Append(@, call),
           !.samples = Append(@, InferenceFn(call.num_samples, key,
                                             Tail(bench.batch.obs.shape)))]
  /\ UNCHANGED unet_vars

\* samples = jnp.reshape(samples, (1, -1) + samples.shape[2:]); return samples
ReturnSamples ==
  /\ bench.bpc = "mapping"
  /\ Len(bench.calls) = Len(bench.rngs)
  /\ LET stacked == Stack(bench.samples)
     IN  bench' = [bench EXCEPT
           !.pred = Reshape(stacked, ReshapeTarget(stacked.shape)),
           !.bpc = "inferred"]
  /\ UNCHANGED unet_vars

\* compute_batch_metrics(pred, batch)
ComputeBatchMetrics ==
  /\ bench.bpc = "inferred"
  /\ LET pred == bench.pred
         obs == bench.batch.obs
         cond_stddev == Metric("std_axis1", pred, NoTensor, <<>>)
         crps == Metric("crps", pred, obs, <<>>)
         thres_brier_scores ==
           Metric("threshold_brier_score", pred, obs, bench.brier_score_thresholds)
     IN  bench' = [bench EXCEPT
           !.collected = [observation |-> obs,
                          example1 |-> Example1(pred),
                          cond_stddev |-> cond_stddev,
                          crps |-> crps,
                          thres_brier_scores |-> thres_brier_scores],
           !.aggregated = [crps |-> crps,
                           thres_brier_scores |-> thres_brier_scores],
           !.bpc = "scored"]
  /\ UNCHANGED unet_vars

BenchmarkNext ==
  \/ Construct
  \/ RunBatchInference
  \/ BatchInferenceFn
  \/ ReturnSamples
  \/ ComputeBatchMetrics

\* no network: the state of cfg where only a benchmark is run
NoNetwork ==
  [cls |-> "UNet", out_channels |-> 3, resize_to_shape |-> {}, num_channels |-> <<>>,
   downsample_ratio |-> <<>>, num_blocks |-> 0, use_attention |-> FALSE,
   use_position_encoding |-> FALSE, cond_embed_dim |-> 8, sigma_data |-> 1]

\* the arguments of a CondSamplingBenchmark about to be constructed
InitBenchmark ==
  /\ cfg = NoNetwork
  /\ InitLocals
  /\ \E n \in 1..MaxSamples, b \in 1..MaxSamples, th \in {<<1>>, <<0, 2>>} :
       bench = [NoBench EXCEPT !.num_samples_per_cond = n,
                               !.sample_batch_size = b,
                               !.brier_score_thresholds = th,
                               !.bpc = "new"]

SpecBenchmark == InitBenchmark /\ [][BenchmarkNext]_vars

----------------------------------------------------------------------------
(* Properties of the benchmark *)

Constructed == bench.bpc \notin {"none", "new", "ValueError"}

IsMultiple(n, b) == \E k \in 1..n : n = k * b

IsSqueezed(c, orig) ==
  /\ orig = None => c = None
  /\ \A d \in orig :
       \E q \in c :
         /\ DOMAIN q = DOMAIN d
         /\ \A k \in DOMAIN d : d[k] = <<1>> \o q[k]
  /\ Cardinality(c) = Cardinality(orig)

\* C8: run_batch_inference calls inference_fn n / b times, each time with
\* num_samples = b, the squeezed batch["cond"], batch["guidance_inputs"] (None
\* if absent) and a key of its own from splitting rng; the result has shape
\* (1, n, *sample_shape) and holds the samples of the k-th call, in their
\* order, at positions k*b .. (k+1)*b - 1 of axis 1.
C8_BatchedSampling ==
  bench.bpc \in {"inferred", "scored"} =>
    LET n == bench.num_samples_per_cond
        b == bench.sample_batch_size
        batch == bench.batch
        sample_shape == Tail(batch.obs.shape)
        calls == bench.calls
    IN  /\ Len(calls) * b = n
        /\ \A k \in 1..Len(calls) :
             /\ calls[k].num_samples = b
             /\ IsSqueezed(calls[k].cond, batch.cond)
             /\ calls[k].guidance_inputs =
                  IF "guidance_inputs" \in DOMAIN batch
                    THEN batch.guidance_inputs ELSE None
             /\ calls[k].rng = [parent |-> bench.rng, index |-> k - 1]
             /\ \A j \in 1..Len(calls) : j # k => calls[j].rng # calls[k].rng
        /\ bench.pred.shape = <<1, n>> \o sample_shape
        /\ \A k \in 0..(Len(calls) - 1) : \A i \in 0..(b - 1) :
             \A e \in 0..(Numel(sample_shape) - 1) :
               bench.pred.vals[
                 Ravel(<<0, k * b + i>> \o Unravel(e, sample_shape),
                       <<1, n>> \o sample_shape) + 1] = Label(k, i, e)

C8_Witness ==
  /\ bench.bpc = "inferred"
  /\ bench.num_samples_per_cond = 4
  /\ bench.sample_batch_size = 2
  /\ "guidance_inputs" \in DOMAIN bench.batch
  /\ bench.batch.guidance_inputs # None
  /\ bench.batch.cond # None
  /\ Len(bench.calls) = 2

C9_Result ==
  bench.bpc = "scored" =>
    LET collected == bench.collected
        aggregated == bench.aggregated
        pred == bench.pred
        sample_shape == SubSeq(pred.shape, 3, Len(pred.shape))
    IN  /\ DOMAIN collected =
             {"observation", "example1", "cond_stddev", "crps", "thres_brier_scores"}
        /\ DOMAIN aggregated = {"crps", "thres_brier_scores"}
        /\ aggregated.crps = collected.crps
        /\ aggregated.thres_brier_scores = collected.thres_brier_scores
        /\ collected.observation = bench.batch.obs
        /\ collected.example1.shape = <<pred.shape[1]>> \o sample_shape
        /\ \A a \in 0..(pred.shape[1] - 1) : \A e \in 0..(Numel(sample_shape) - 1) :
             collected.example1.vals[a * Numel(sample_shape) + e + 1] =
               pred.vals[Ravel(<<a, 0>> \o Unravel(e, sample_shape), pred.shape) + 1]

C9_Unmodified ==
  (bench.bpc = "inferred" /\ bench'.bpc = "scored") =>
    /\ bench'.pred = bench.pred
    /\ bench'.batch = bench.batch

\* C9: compute_batch_metrics returns collected with exactly the keys
\* observation, example1, cond_stddev, crps, thres_brier_scores and aggregated
\* with exactly crps and thres_brier_scores, the aggregated values being the
\* collected ones; observation is batch["obs"], example1 is pred[:, 0], and
\* pred and batch are left as they were.
C9_BatchMetrics == [](C9_Result) /\ [][C9_Unmodified]_vars

C9_Witness ==
  /\ bench.bpc = "scored"
  /\ bench.num_samples_per_cond = 4
  /\ bench.sample_batch_size = 2
  /\ bench.pred.shape = <<1, 4, 1, 2>>

====
